---- MODULE Spec2Model ----
(***************************************************************************)
(* Model of src/analyzer.py: analyze_jsx reads a file, finds the tag       *)
(* tokens with a regular expression, and checks their nesting with a       *)
(* stack, writing one diagnostic line per structural issue.                *)
(*                                                                         *)
(* Text is modelled as a sequence of one-character strings.  Offsets into  *)
(* the text are 0-based as in Python (character k of the Python string is  *)
(* element k+1 of the sequence).                                           *)
(***************************************************************************)
EXTENDS Integers, Sequences, FiniteSets, TLC

VARIABLES
    readable,   \* environment: whether open()/read() of file_path succeeds
    file,       \* environment: the text stored in the file
    pc,         \* position of the single thread of control
    content,    \* analyzer.py:5
    matches,    \* analyzer.py:16  the matches re.finditer yields, in order
    i,          \* analyzer.py:16  number of matches the for loop has consumed
    stack,      \* analyzer.py:11  bottom first, top last; records <<tag, line>>
    line_num,   \* analyzer.py:12,17
    out         \* standard output: the diagnostic lines written so far

vars == <<readable, file, pc, content, matches, i, stack, line_num, out>>

----------------------------------------------------------------------------
(* Bounds of the model. *)

\* The file is a concatenation of at most MaxChunks pieces drawn from Chunks.
MaxChunks == 3

----------------------------------------------------------------------------
(* Character classes of the regular expression (analyzer.py:16). *)

\* [a-zA-Z0-9:]
NameChars ==
    { "a","b","c","d","e","f","g","h","i","j","k","l","m",
      "n","o","p","q","r","s","t","u","v","w","x","y","z",
      "A","B","C","D","E","F","G","H","I","J","K","L","M",
      "N","O","P","Q","R","S","T","U","V","W","X","Y","Z",
      "0","1","2","3","4","5","6","7","8","9",":" }

\* \s, and the characters str.strip() removes (the ASCII ones)
Whitespace == { " ", "\t", "\n", "\r", "\f" }

\* The list of analyzer.py:20
VoidTags ==
    { <<"i","m","g">>, <<"b","r">>, <<"h","r">>,
      <<"i","n","p","u","t">>, <<"m","e","t","a">>, <<"l","i","n","k">> }

----------------------------------------------------------------------------
\* The regular expression of analyzer.py:16,
\*     <(/?)([a-zA-Z0-9:]+)(?:\s+[^>]*?)?(/?\s*)>
\* matched the way Python's backtracking matcher does.

\* The 1-based position just after the longest run of characters of S that
\* starts at position p of c (p itself when c[p] is not in S).
RunEnd(c, p, S) ==
    CHOOSE k \in p..(Len(c) + 1) :
        /\ \A j \in p..(k - 1) : c[j] \in S
        /\ (k > Len(c) \/ c[k] \notin S)

\* Whether c[lo..hi] is matched by  /?\s*  (lo = hi + 1: the empty string).
IsTail(c, lo, hi) ==
    \/ lo > hi
    \/ /\ (c[lo] = "/" \/ c[lo] \in Whitespace)
       /\ \A j \in (lo + 1)..hi : c[j] \in Whitespace

NoMatch == [ok |-> FALSE]

\* re.match of the pattern at 1-based position s of c.  The result carries
\* the 0-based start and end offsets of match.start() and match.end() and
\* the three groups.
MatchAt(c, s) ==
    IF c[s] # "<" THEN NoMatch
    ELSE
    LET n     == Len(c)
        slash == s + 1 <= n /\ c[s + 1] = "/"
        p1    == IF slash THEN s + 2 ELSE s + 1          \* after (/?)
        p     == RunEnd(c, p1, NameChars)                \* after the name
        g1    == IF slash THEN <<"/">> ELSE <<>>
        g2    == SubSeq(c, p1, p - 1)
    IN  IF p = p1 THEN NoMatch                           \* + needs one char
        ELSE IF p <= n /\ c[p] \in Whitespace THEN
            \* (?:\s+[^>]*?)? is entered: \s+ is greedy, [^>]*? is lazy and
            \* stops at the first offset from which (/?\s*)> matches.
            LET w  == RunEnd(c, p, Whitespace)
                gt == { k \in w..n : c[k] = ">" }
            IN  IF gt = {} THEN NoMatch
                ELSE
                LET q == CHOOSE k \in gt : \A j \in gt : k <= j
                    t == CHOOSE k \in w..q :
                            /\ IsTail(c, k, q - 1)
                            /\ \A j \in w..(k - 1) : ~IsTail(c, j, q - 1)
                IN  [ok |-> TRUE, start |-> s - 1, end |-> q,
                     g1 |-> g1, g2 |-> g2, g3 |-> SubSeq(c, t, q - 1)]
        ELSE
            \* the optional group is skipped: (/?\s*)> follows the name
            LET p2 == IF p <= n /\ c[p] = "/" THEN p + 1 ELSE p
                p3 == RunEnd(c, p2, Whitespace)
            IN  IF p3 <= n /\ c[p3] = ">"
                THEN [ok |-> TRUE, start |-> s - 1, end |-> p3,
                      g1 |-> g1, g2 |-> g2, g3 |-> SubSeq(c, p, p3 - 1)]
                ELSE NoMatch

\* The non-overlapping matches from 1-based position s on, left to right.
RECURSIVE FindFrom(_, _)
FindFrom(c, s) ==
    IF s > Len(c) THEN <<>>
    ELSE LET m == MatchAt(c, s)
         IN  IF m.ok THEN <<m>> \o FindFrom(c, m.end + 1)
             ELSE FindFrom(c, s + 1)

\* re.finditer(pattern, content), as the sequence it yields
FindIter(c) == FindFrom(c, 1)

----------------------------------------------------------------------------
(* String helpers. *)

\* str.count(sub, start, end) for a one-character sub: occurrences at the
\* 0-based offsets start <= k < end.
RECURSIVE Count(_, _, _, _)
Count(c, sub, start, end) ==
    IF start >= end \/ start >= Len(c) THEN 0
    ELSE (IF c[start + 1] = sub THEN 1 ELSE 0) + Count(c, sub, start + 1, end)

\* str.strip()
RECURSIVE LStrip(_)
LStrip(s) ==
    IF s # <<>> /\ Head(s) \in Whitespace THEN LStrip(Tail(s)) ELSE s

RECURSIVE RStrip(_)
RStrip(s) ==
    IF s # <<>> /\ s[Len(s)] \in Whitespace
    THEN RStrip(SubSeq(s, 1, Len(s) - 1)) ELSE s

Strip(s) == RStrip(LStrip(s))

----------------------------------------------------------------------------
(* The loop body's locals (analyzer.py:17-20). *)

\* line_num without the + 1
LineNumOf_ZeroBased(c, m) == Count(c, "\n", 0, m.start)

LineNumOf(c, m) == Count(c, "\n", 0, m.start) + 1

IsClosing(m) == m.g1 = <<"/">>

TagName(m) == m.g2

UpperLetters ==
    <<"A","B","C","D","E","F","G","H","I","J","K","L","M",
      "N","O","P","Q","R","S","T","U","V","W","X","Y","Z">>

LowerLetters ==
    <<"a","b","c","d","e","f","g","h","i","j","k","l","m",
      "n","o","p","q","r","s","t","u","v","w","x","y","z">>

\* A name with its upper-case letters replaced by lower-case ones
LowerName(n) ==
    [j \in 1..Len(n) |->
        IF \E k \in 1..Len(UpperLetters) : UpperLetters[k] = n[j]
        THEN LowerLetters[CHOOSE k \in 1..Len(UpperLetters) :
                                            UpperLetters[k] = n[j]]
        ELSE n[j]]

\* is_self_closing with the void test made on the lower-cased name
\* (tag_name.lower() in [...])
IsSelfClosing_IgnoreCase(m) ==
    Strip(m.g3) = <<"/">> \/ LowerName(TagName(m)) \in VoidTags

\* is_self_closing applied to opening-form tags only
IsSelfClosing_OpeningOnly(m) ==
    m.g1 # <<"/">> /\ (Strip(m.g3) = <<"/">> \/ TagName(m) \in VoidTags)

\* is_self_closing without the list of void names
IsSelfClosing_MarkerOnly(m) == Strip(m.g3) = <<"/">>

IsSelfClosing(m) == Strip(m.g3) = <<"/">> \/ TagName(m) \in VoidTags

\* Output putting the new line before the earlier ones
Output_Prepend(o, msg) == <<msg>> \o o

\* print(...): one more line on standard output
Output(o, msg) == Append(o, msg)

\* The three f-strings, as the tuple of their kind and interpolated values
UnexpectedMsg(tag_name, ln) == <<"Unexpected closing tag", tag_name, ln>>

MismatchedMsg(last_tag, last_line, tag_name, ln) ==
    <<"Mismatched tag", last_tag, last_line, tag_name, ln>>

UnclosedMsg(tag, line) == <<"Unclosed tag", tag, line>>

----------------------------------------------------------------------------
(* The files the model is run on. *)

Chunks ==
    { <<"<","a",">">>,
      <<"<","/","a",">">>,
      <<"<","b",">">>,
      <<"<","/","b",">">>,
      <<"<","i","m","g",">">>,
      <<"<","/","b","r",">">>,
      <<"<","b","\n","/",">">>,
      <<"\n">>,
      <<"<","/","a","/",">">>,
      <<"<","B","r",">">>,
      <<"<","/","B","R",">">> }

RECURSIVE Concat(_)
Concat(ss) == IF ss = <<>> THEN <<>> ELSE Head(ss) \o Concat(Tail(ss))

Files ==
    { Concat(ss) : ss \in UNION { [1..n -> Chunks] : n \in 0..MaxChunks } }

----------------------------------------------------------------------------
(* The program. *)

\* Before the call of analyzer.py:39: nothing is bound yet
Init ==
    /\ readable = FALSE
    /\ file = <<>>
    /\ pc = "call"
    /\ content = <<>>
    /\ matches = <<>>
    /\ i = 0
    /\ stack = <<>>
    /\ line_num = 0
    /\ out = <<>>

\* analyzer.py:39: the call; the path names a file that can or cannot be
\* read and, when it can, holds some text
Call ==
    /\ pc = "call"
    /\ \E r \in BOOLEAN, f \in Files :
            /\ readable' = r
            /\ file' = IF r THEN f ELSE <<>>
    /\ pc' = "read"
    /\ UNCHANGED <<content, matches, i, stack, line_num, out>>

\* ReadFail with the exception caught, reported as a line of output, and
\* the function returning normally
ReadFail_Caught ==
    /\ pc = "read"
    /\ ~readable
    /\ pc' = "done"
    /\ out' = Output(out, <<"Cannot read file">>)
    /\ UNCHANGED <<readable, file, content, matches, i, stack, line_num>>

\* analyzer.py:4-5 raise: the exception leaves analyze_jsx
ReadFail ==
    /\ pc = "read"
    /\ ~readable
    /\ pc' = "failed"
    /\ UNCHANGED <<readable, file, content, matches, i, stack, line_num, out>>

\* analyzer.py:4-16: the read, the initialisations, the iterator.  The list
\* tags of line 9 is never used again and is left out.
ReadOk ==
    /\ pc = "read"
    /\ readable
    /\ content' = file
    /\ stack' = <<>>
    /\ line_num' = 1
    /\ matches' = FindIter(file)
    /\ i' = 0
    /\ pc' = "scan"
    /\ UNCHANGED <<readable, file, out>>

\* The match the for loop hands to its body next
Cur == matches[i + 1]

InLoop == pc = "scan" /\ i < Len(matches)

\* analyzer.py:22-23
SkipSelfClosing ==
    /\ InLoop
    /\ IsSelfClosing(Cur)
    /\ line_num' = LineNumOf(content, Cur)
    /\ i' = i + 1
    /\ UNCHANGED <<readable, file, pc, content, matches, stack, out>>

\* UnexpectedClosing raising instead of continuing
UnexpectedClosing_Raise ==
    /\ InLoop
    /\ ~IsSelfClosing(Cur)
    /\ IsClosing(Cur)
    /\ stack = <<>>
    /\ line_num' = LineNumOf(content, Cur)
    /\ out' = Output(out, UnexpectedMsg(TagName(Cur), line_num'))
    /\ pc' = "failed"
    /\ UNCHANGED <<readable, file, i, content, matches, stack>>

\* UnexpectedClosing without the continue of line 28 guarding the else
\* branch: the closing tag is reported and then pushed like an opening one
UnexpectedClosing_Push ==
    /\ InLoop
    /\ ~IsSelfClosing(Cur)
    /\ IsClosing(Cur)
    /\ stack = <<>>
    /\ line_num' = LineNumOf(content, Cur)
    /\ out' = Output(out, UnexpectedMsg(TagName(Cur), line_num'))
    /\ stack' = Append(stack, <<TagName(Cur), line_num'>>)
    /\ i' = i + 1
    /\ UNCHANGED <<readable, file, pc, content, matches>>

\* analyzer.py:25-28
UnexpectedClosing ==
    /\ InLoop
    /\ ~IsSelfClosing(Cur)
    /\ IsClosing(Cur)
    /\ stack = <<>>
    /\ line_num' = LineNumOf(content, Cur)
    /\ out' = Output(out, UnexpectedMsg(TagName(Cur), line_num'))
    /\ i' = i + 1
    /\ UNCHANGED <<readable, file, pc, content, matches, stack>>

\* PopClosing that treats a top record of another name as "no open tag":
\* it reports the closing tag as unexpected and leaves the stack alone
PopClosing_UnexpectedOnMismatch ==
    /\ InLoop
    /\ ~IsSelfClosing(Cur)
    /\ IsClosing(Cur)
    /\ stack # <<>>
    /\ line_num' = LineNumOf(content, Cur)
    /\ LET last == stack[Len(stack)]
       IN  IF last[1] # TagName(Cur)
           THEN /\ stack' = stack
                /\ out' = Output(out, UnexpectedMsg(TagName(Cur), line_num'))
           ELSE /\ stack' = SubSeq(stack, 1, Len(stack) - 1)
                /\ out' = out
    /\ i' = i + 1
    /\ UNCHANGED <<readable, file, pc, content, matches>>

\* PopClosing that pushes the popped record back after a mismatch
PopClosing_Repush ==
    /\ InLoop
    /\ ~IsSelfClosing(Cur)
    /\ IsClosing(Cur)
    /\ stack # <<>>
    /\ line_num' = LineNumOf(content, Cur)
    /\ LET last == stack[Len(stack)]
       IN  IF last[1] # TagName(Cur)
           THEN /\ stack' = stack
                /\ out' = Output(out, MismatchedMsg(last[1], last[2],
                                                    TagName(Cur), line_num'))
           ELSE /\ stack' = SubSeq(stack, 1, Len(stack) - 1)
                /\ out' = out
    /\ i' = i + 1
    /\ UNCHANGED <<readable, file, pc, content, matches>>

\* PopClosing without the comparison of line 30: nothing is ever reported
PopClosing_NoCompare ==
    /\ InLoop
    /\ ~IsSelfClosing(Cur)
    /\ IsClosing(Cur)
    /\ stack # <<>>
    /\ line_num' = LineNumOf(content, Cur)
    /\ stack' = SubSeq(stack, 1, Len(stack) - 1)
    /\ out' = out
    /\ i' = i + 1
    /\ UNCHANGED <<readable, file, pc, content, matches>>

\* The stack with the records above the innermost one named tag removed,
\* that one included; empty when there is none
RECURSIVE PopTo(_, _)
PopTo(st, tag) ==
    IF st = <<>> THEN <<>>
    ELSE IF st[Len(st)][1] = tag THEN SubSeq(st, 1, Len(st) - 1)
    ELSE PopTo(SubSeq(st, 1, Len(st) - 1), tag)

\* PopClosing that, after a mismatch, goes on popping until it has removed
\* a record of the closing tag's name
PopClosing_PopToMatch ==
    /\ InLoop
    /\ ~IsSelfClosing(Cur)
    /\ IsClosing(Cur)
    /\ stack # <<>>
    /\ line_num' = LineNumOf(content, Cur)
    /\ LET last == stack[Len(stack)]
       IN  /\ stack' = PopTo(stack, TagName(Cur))
           /\ out' = IF last[1] # TagName(Cur)
                     THEN Output(out, MismatchedMsg(last[1], last[2],
                                                    TagName(Cur), line_num'))
                     ELSE out
    /\ i' = i + 1
    /\ UNCHANGED <<readable, file, pc, content, matches>>

\* PopClosing reading the top record without removing it (stack[-1])
PopClosing_Peek ==
    /\ InLoop
    /\ ~IsSelfClosing(Cur)
    /\ IsClosing(Cur)
    /\ stack # <<>>
    /\ line_num' = LineNumOf(content, Cur)
    /\ LET last == stack[Len(stack)]
       IN  /\ stack' = stack
           /\ out' = IF last[1] # TagName(Cur)
                     THEN Output(out, MismatchedMsg(last[1], last[2],
                                                    TagName(Cur), line_num'))
                     ELSE out
    /\ i' = i + 1
    /\ UNCHANGED <<readable, file, pc, content, matches>>

\* analyzer.py:25,29-31
PopClosing ==
    /\ InLoop
    /\ ~IsSelfClosing(Cur)
    /\ IsClosing(Cur)
    /\ stack # <<>>
    /\ line_num' = LineNumOf(content, Cur)
    /\ LET last == stack[Len(stack)]
           last_tag == last[1]
           last_line == last[2]
       IN  /\ stack' = SubSeq(stack, 1, Len(stack) - 1)
           /\ out' = IF last_tag # TagName(Cur)
                     THEN Output(out, MismatchedMsg(last_tag, last_line,
                                                    TagName(Cur), line_num'))
                     ELSE out
    /\ i' = i + 1
    /\ UNCHANGED <<readable, file, pc, content, matches>>

\* PushOpening inserting the record at the bottom (stack.insert(0, ...))
PushOpening_Bottom ==
    /\ InLoop
    /\ ~IsSelfClosing(Cur)
    /\ ~IsClosing(Cur)
    /\ line_num' = LineNumOf(content, Cur)
    /\ stack' = <<<<TagName(Cur), line_num'>>>> \o stack
    /\ i' = i + 1
    /\ UNCHANGED <<readable, file, pc, content, matches, out>>

\* analyzer.py:32-33
PushOpening ==
    /\ InLoop
    /\ ~IsSelfClosing(Cur)
    /\ ~IsClosing(Cur)
    /\ line_num' = LineNumOf(content, Cur)
    /\ stack' = Append(stack, <<TagName(Cur), line_num'>>)
    /\ i' = i + 1
    /\ UNCHANGED <<readable, file, pc, content, matches, out>>

\* analyzer.py:16: the iterator is exhausted
EndScan ==
    /\ pc = "scan"
    /\ i = Len(matches)
    /\ pc' = "final"
    /\ UNCHANGED <<readable, file, content, matches, i, stack, line_num, out>>

\* ReportUnclosed reporting the innermost record only and dropping the rest
ReportUnclosed_TopOnly ==
    /\ pc = "final"
    /\ stack # <<>>
    /\ LET top == stack[Len(stack)]
       IN  /\ stack' = <<>>
           /\ out' = Output(out, UnclosedMsg(top[1], top[2]))
    /\ UNCHANGED <<readable, file, pc, content, matches, i, line_num>>

\* ReportUnclosed taking the oldest record first (stack.pop(0))
ReportUnclosed_Fifo ==
    /\ pc = "final"
    /\ stack # <<>>
    /\ stack' = Tail(stack)
    /\ out' = Output(out, UnclosedMsg(Head(stack)[1], Head(stack)[2]))
    /\ UNCHANGED <<readable, file, pc, content, matches, i, line_num>>

\* analyzer.py:35-37
ReportUnclosed ==
    /\ pc = "final"
    /\ stack # <<>>
    /\ LET top == stack[Len(stack)]
       IN  /\ stack' = SubSeq(stack, 1, Len(stack) - 1)
           /\ out' = Output(out, UnclosedMsg(top[1], top[2]))
    /\ UNCHANGED <<readable, file, pc, content, matches, i, line_num>>

\* analyzer.py:35: the while condition is false, analyze_jsx returns
Return ==
    /\ pc = "final"
    /\ stack = <<>>
    /\ pc' = "done"
    /\ UNCHANGED <<readable, file, content, matches, i, stack, line_num, out>>

Next ==
    \/ Call
    \/ ReadFail
    \/ ReadOk
    \/ SkipSelfClosing
    \/ UnexpectedClosing
    \/ PopClosing
    \/ PushOpening
    \/ EndScan
    \/ ReportUnclosed
    \/ Return

Spec == Init /\ [][Next]_vars

\* The steps of ReadOk, told by the control position alone: under Spec a
\* step from "read" to "scan" is a ReadOk step, and it is possible exactly
\* when ReadOk is.
ReadOkStep == pc = "read" /\ readable /\ pc' = "scan"

\* Every step but ReadOk
OtherStep ==
    \/ Call
    \/ ReadFail
    \/ SkipSelfClosing
    \/ UnexpectedClosing
    \/ PopClosing
    \/ PushOpening
    \/ EndScan
    \/ ReportUnclosed
    \/ Return

\* One thread runs the function: a step that can be taken is taken.
LiveSpec == Spec /\ WF_vars(OtherStep) /\ WF_pc(ReadOkStep)

----------------------------------------------------------------------------
(* Vocabulary of the properties, read off the text of the file rather      *)
(* than off the locals of the loop.                                        *)

\* 1 + the number of newline characters strictly before the match's start
RefLine(m) == 1 + Cardinality({ k \in 1..m.start : content[k] = "\n" })

\* The tag is written </name ...>
ClosingForm(m) == content[m.start + 2] = "/"

\* The last character before the closing > that is not white space is a /
HasMarker(m) ==
    LET ks == { k \in (m.start + 1)..(m.end - 1) : content[k] \notin Whitespace }
    IN  content[CHOOSE k \in ks : \A j \in ks : j <= k] = "/"

\* Explicit marker, or a name of the void set
SelfClosingTok(m) == HasMarker(m) \/ m.g2 \in VoidTags

OpeningTok(m) == ~SelfClosingTok(m) /\ ~ClosingForm(m)

ClosingTok(m) == ~SelfClosingTok(m) /\ ClosingForm(m)

\* The first k tokens with the self-closing ones removed
Structural(k) ==
    SelectSeq(SubSeq(matches, 1, k), LAMBDA m : ~SelfClosingTok(m))

\* <<name, line>> of a token
RecOf(m) == <<m.g2, RefLine(m)>>

RecsOf(ms) == [k \in 1..Len(ms) |-> RecOf(ms[k])]

Reverse(s) == [k \in 1..Len(s) |-> s[Len(s) + 1 - k]]

\* a is b with some elements left out
RECURSIVE IsSubseq(_, _)
IsSubseq(a, b) ==
    IF a = <<>> THEN TRUE
    ELSE IF b = <<>> THEN FALSE
    ELSE IF Head(a) = Head(b) THEN IsSubseq(Tail(a), Tail(b))
    ELSE IsSubseq(a, Tail(b))

\* Positions at which an opening tag is directly followed by a closing tag
\* of the same name
Redexes(ms) ==
    { k \in 1..(Len(ms) - 1) :
        /\ ~ClosingForm(ms[k])
        /\ ClosingForm(ms[k + 1])
        /\ ms[k].g2 = ms[k + 1].g2 }

\* What is left of ms once every opening tag directly followed by its
\* same-named closing tag has been cancelled, repeatedly
RECURSIVE Reduce(_)
Reduce(ms) ==
    IF Redexes(ms) = {} THEN ms
    ELSE LET k == CHOOSE r \in Redexes(ms) : \A q \in Redexes(ms) : r <= q
         IN  Reduce(SubSeq(ms, 1, k - 1) \o SubSeq(ms, k + 2, Len(ms)))

\* Every opening tag is matched by one same-named closing tag, properly nested
WellFormed == Reduce(Structural(Len(matches))) = <<>>

Kind(d) == d[1]

OfKind(o, kind) == SelectSeq(o, LAMBDA d : Kind(d) = kind)

\* <<tag, line>> of the Unclosed diagnostics, in the order written
UnclosedRecs(o) ==
    LET u == OfKind(o, "Unclosed tag")
    IN  [k \in 1..Len(u) |-> <<u[k][2], u[k][3]>>]

----------------------------------------------------------------------------
\* C1: whenever the file read is well-formed (every opening tag matched by
\* one same-named closing tag in nesting order, void and self-closing tags
\* set aside), no diagnostic has been written, at any point of the run and
\* at its end.
C1_WellFormedSilent ==
    (pc \in {"scan", "final", "done"} /\ WellFormed) => out = <<>>

\* A finished run on a tag opened and closed around a self-closing one.
C1_Witness ==
    /\ pc = "done"
    /\ WellFormed
    /\ Len(matches) = 3
    /\ OpeningTok(matches[1])
    /\ SelfClosingTok(matches[2])
    /\ ClosingTok(matches[3])
    /\ out = <<>>

----------------------------------------------------------------------------
\* The records still open: the stack, then the ones already reported
StillOpen == stack \o Reverse(UnclosedRecs(out))

\* C2: no Unclosed diagnostic is written before every token has been
\* processed; from the end of the scan on, each step keeps "stack followed
\* by the reported records, last reported first" unchanged, and the run
\* ends with the stack empty, so the Unclosed diagnostics are as many as
\* the records left by the scan and name them innermost first; read in
\* reverse they name opening tags of the file, in the order they were
\* opened, each with its own line.
C2_UnclosedInnermostFirst ==
    /\ [](pc \in {"call", "read", "scan"} => UnclosedRecs(out) = <<>>)
    /\ [][pc' \in {"final", "done"} => StillOpen' = StillOpen]_vars
    /\ [](pc = "done" =>
            /\ stack = <<>>
            /\ IsSubseq(Reverse(UnclosedRecs(out)),
                        RecsOf(SelectSeq(matches, OpeningTok))))

\* A finished run that reported two unclosed tags of different names.
C2_Witness ==
    /\ pc = "done"
    /\ Len(UnclosedRecs(out)) = 2
    /\ UnclosedRecs(out)[1][1] # UnclosedRecs(out)[2][1]

----------------------------------------------------------------------------
\* No record of the stack carries the token's name
NoOpenTagFor(m) == \A k \in 1..Len(stack) : stack[k][1] # m.g2

UnexpectedFor(m) == <<"Unexpected closing tag", m.g2, RefLine(m)>>

\* C3 as stated: every closing tag (not self-closing) scanned while no
\* record of its name is on the stack, whatever the stack holds, adds
\* exactly one Unexpected diagnostic and leaves the stack as it was.
C3_AsStated ==
    [][(InLoop /\ ClosingTok(Cur) /\ NoOpenTagFor(Cur)) =>
            /\ out' = Append(out, UnexpectedFor(Cur))
            /\ stack' = stack]_vars

\* C3 amended: a closing tag that is not self-closing, scanned while the
\* stack is empty, adds exactly one Unexpected diagnostic naming it and its
\* line and leaves the stack empty; scanned while the stack is not empty it
\* adds no Unexpected diagnostic and removes the top record, whether or not
\* a record of its name is on the stack.
C3_UnexpectedOnlyOnEmptyStack ==
    [][(InLoop /\ ClosingTok(Cur)) =>
            IF stack = <<>>
            THEN /\ out' = Append(out, UnexpectedFor(Cur))
                 /\ stack' = stack
            ELSE /\ OfKind(out', "Unexpected closing tag")
                        = OfKind(out, "Unexpected closing tag")
                 /\ stack' = SubSeq(stack, 1, Len(stack) - 1)]_vars

\* A closing tag has just been reported as unexpected, after an earlier
\* tag had been opened and closed.
C3_Witness ==
    /\ pc = "scan"
    /\ i >= 3
    /\ ClosingTok(matches[i])
    /\ OpeningTok(matches[1])
    /\ stack = <<>>
    /\ out # <<>>
    /\ out[Len(out)] = UnexpectedFor(matches[i])

----------------------------------------------------------------------------
\* C4: a step that scans a self-closing token (explicit marker, or a name
\* of the void set) changes neither the stack nor the output; no record of
\* the stack and no Unclosed diagnostic ever names a void tag.
C4_SelfClosingInert ==
    /\ [][(InLoop /\ SelfClosingTok(Cur)) =>
            (stack' = stack /\ out' = out /\ i' = i + 1)]_vars
    /\ [](\A k \in 1..Len(stack) : stack[k][1] \notin VoidTags)
    /\ [](\A k \in 1..Len(out) :
            Kind(out[k]) = "Unclosed tag" => out[k][2] \notin VoidTags)

\* A finished run over a file holding <img> without marker and without any
\* closing tag, in which another tag was left open and reported.
C4_Witness ==
    /\ pc = "done"
    /\ \E k \in 1..Len(matches) :
            /\ matches[k].g2 = <<"i","m","g">>
            /\ ~HasMarker(matches[k])
            /\ ~ClosingForm(matches[k])
            /\ k > 1
    /\ \A k \in 1..Len(matches) : ~ClosingForm(matches[k])
    /\ Len(out) = 1
    /\ Kind(out[1]) = "Unclosed tag"

----------------------------------------------------------------------------
\* The tokens that are not self-closing are: open A, open B, close A
OpenAOpenBCloseA ==
    LET t == Structural(Len(matches))
    IN  /\ Len(t) = 3
        /\ OpeningTok(t[1]) /\ OpeningTok(t[2]) /\ ClosingTok(t[3])
        /\ t[1].g2 = t[3].g2
        /\ t[1].g2 # t[2].g2

\* C5: a step that scans a closing token (not self-closing) with a
\* non-empty stack removes exactly the top record and keeps the ones below;
\* it writes one Mismatched diagnostic (popped tag, its recorded line,
\* closing tag, closing tag's line) when the names differ and nothing
\* otherwise.  A finished run on open A, open B, close A has written
\* exactly: Mismatched (B, A), then Unclosed A.
C5_PopOnClose ==
    /\ [][(InLoop /\ ClosingTok(Cur) /\ stack # <<>>) =>
            LET top == stack[Len(stack)]
            IN  /\ stack' = SubSeq(stack, 1, Len(stack) - 1)
                /\ out' = IF top[1] # Cur.g2
                          THEN Append(out, <<"Mismatched tag", top[1], top[2],
                                             Cur.g2, RefLine(Cur)>>)
                          ELSE out]_vars
    /\ [](pc = "done" /\ OpenAOpenBCloseA =>
            LET t == Structural(Len(matches))
            IN  out = << <<"Mismatched tag", t[2].g2, RefLine(t[2]),
                           t[3].g2, RefLine(t[3])>>,
                         <<"Unclosed tag", t[1].g2, RefLine(t[1])>> >>)

\* A finished run on open A, open B, close A.
C5_Witness ==
    /\ pc = "done"
    /\ OpenAOpenBCloseA
    /\ Len(out) = 2

----------------------------------------------------------------------------
\* C6: the scan starts from an empty stack; each step of the scan either
\* processes the next token in document order and stays in the scan, or,
\* once every token has been processed, goes on to the finalization, which
\* only ends by returning; no step of the scan or the finalization aborts.
\* Once the scan has started, the run reaches the terminal state with every
\* token processed and the stack empty.
C6_ScanCompletes ==
    /\ [](pc = "scan" /\ i = 0 => stack = <<>>)
    /\ [][pc = "scan" =>
            \/ i < Len(matches) /\ pc' = "scan" /\ i' = i + 1
            \/ i = Len(matches) /\ pc' = "final" /\ i' = i]_vars
    /\ [][pc = "final" => pc' \in {"final", "done"} /\ i' = i]_vars
    /\ (pc = "scan") ~> (pc = "done" /\ stack = <<>> /\ i = Len(matches))

\* A finished run that reported three structural issues, an unexpected
\* closing tag first.
C6_Witness ==
    /\ pc = "done"
    /\ stack = <<>>
    /\ i = Len(matches)
    /\ Len(out) = 3
    /\ Kind(out[1]) = "Unexpected closing tag"

----------------------------------------------------------------------------
\* C7: the run fails only at the read step and only when the file cannot
\* be read; a failed run has written no diagnostic, scanned no token and
\* takes no further step (no retry); an unreadable file never leads to a
\* scan or to output; a readable file never leads to the failed state.
\* Every run ends either failed (unreadable file) or done (readable file).
C7_NoPartialFailure ==
    /\ [](pc = "failed" =>
            ~readable /\ out = <<>> /\ i = 0 /\ matches = <<>> /\ stack = <<>>)
    /\ [](~readable => pc \in {"call", "read", "failed"} /\ out = <<>>)
    /\ [](readable => pc # "failed")
    /\ [][pc' = "failed" => pc = "read"]_vars
    /\ [][pc # "failed"]_vars
    /\ (pc = "read" /\ ~readable) ~> (pc = "failed")
    /\ (pc = "read" /\ readable) ~> (pc = "done")

\* The read has failed.
C7_Witness ==
    /\ pc = "failed"
    /\ ~readable
    /\ out = <<>>

----------------------------------------------------------------------------
\* The closing tag a diagnostic of the scan names, with its line
CloserRec(d) ==
    IF Kind(d) = "Unexpected closing tag" THEN <<d[2], d[3]>> ELSE <<d[4], d[5]>>

\* The diagnostic names tags of the file, each with the line its text
\* starts on, among the tokens scanned so far
LinesRight(d) ==
    LET n == Len(matches)
    IN  CASE Kind(d) = "Unexpected closing tag" ->
                \E k \in 1..n : ClosingTok(matches[k]) /\ d = UnexpectedFor(matches[k])
          [] Kind(d) = "Mismatched tag" ->
                \E k1, k2 \in 1..n :
                    /\ k1 < k2
                    /\ OpeningTok(matches[k1]) /\ ClosingTok(matches[k2])
                    /\ d = <<"Mismatched tag", matches[k1].g2, RefLine(matches[k1]),
                             matches[k2].g2, RefLine(matches[k2])>>
          [] Kind(d) = "Unclosed tag" ->
                \E k \in 1..n :
                    OpeningTok(matches[k])
                    /\ d = <<"Unclosed tag", matches[k].g2, RefLine(matches[k])>>
          [] OTHER -> FALSE

\* C8: every record of the stack is <<name, line>> of an opening tag
\* already scanned, in document order, where line is 1 + the number of
\* newline characters strictly before the tag's start offset; every line
\* number in a diagnostic is that line of a tag of that name and kind; the
\* opener's line in a Mismatched or Unclosed diagnostic is the one the
\* popped record carried, and the closer's line in a diagnostic of the scan
\* is the line of the token being scanned.
C8_LineNumbers ==
    /\ [](IsSubseq(stack,
                   RecsOf(SelectSeq(SubSeq(matches, 1, i), OpeningTok))))
    /\ [](\A k \in 1..Len(out) : LinesRight(out[k]))
    /\ [][(InLoop /\ out' # out) =>
            CloserRec(out'[Len(out')]) = RecOf(Cur)]_vars
    /\ [][(stack # <<>> /\ out' # out) =>
            LET d == out'[Len(out')]
            IN  <<d[2], d[3]>> = stack[Len(stack)]]_vars

\* A finished run that reported a mismatch between a tag opened on line 1
\* and a closing tag on line 2.
C8_Witness ==
    /\ pc = "done"
    /\ \E k \in 1..Len(out) :
            Kind(out[k]) = "Mismatched tag" /\ out[k][3] = 1 /\ out[k][5] = 2

----------------------------------------------------------------------------
\* The diagnostics written by the scan
ScanDiags(o) == SelectSeq(o, LAMBDA d : Kind(d) # "Unclosed tag")

\* C9: output only grows at its end, one line per step at most; the scan
\* writes only Unexpected and Mismatched diagnostics, each for the closing
\* token being scanned, and the finalization writes only Unclosed ones; so
\* the scan's diagnostics follow the document order of the closing tokens
\* that caused them and no Unclosed diagnostic precedes any of them.
C9_DiagnosticOrder ==
    /\ [][out' = out \/
          (Len(out') = Len(out) + 1 /\ SubSeq(out', 1, Len(out)) = out)]_vars
    /\ [][out' # out =>
            LET d == out'[Len(out')]
            IN  IF pc = "scan"
                THEN Kind(d) # "Unclosed tag" /\ CloserRec(d) = RecOf(Cur)
                ELSE pc = "final" /\ Kind(d) = "Unclosed tag"]_vars
    /\ [](\A j, k \in 1..Len(out) :
            (j < k /\ Kind(out[j]) = "Unclosed tag") => Kind(out[k]) = "Unclosed tag")
    /\ [](LET sd == ScanDiags(out)
          IN  IsSubseq([k \in 1..Len(sd) |-> CloserRec(sd[k])],
                       RecsOf(SelectSeq(matches, ClosingTok))))

\* A finished run that wrote, in this order, two Unexpected diagnostics
\* for closing tags of different names and an Unclosed diagnostic.
C9_Witness ==
    /\ pc = "done"
    /\ Len(out) = 3
    /\ Kind(out[1]) = "Unexpected closing tag"
    /\ Kind(out[2]) = "Unexpected closing tag"
    /\ out[1][2] # out[2][2]
    /\ Kind(out[3]) = "Unclosed tag"

----------------------------------------------------------------------------
\* The opening tags among the first k tokens that no same-named closing tag
\* has matched, outermost first
UnmatchedOpeners(k) ==
    RecsOf(SelectSeq(Reduce(Structural(k)), LAMBDA m : ~ClosingForm(m)))

\* Positions at which an opening tag is directly followed by a closing tag
\* of any name
RedexesAnyName(ms) ==
    { k \in 1..(Len(ms) - 1) : ~ClosingForm(ms[k]) /\ ClosingForm(ms[k + 1]) }

RECURSIVE ReduceAnyName(_)
ReduceAnyName(ms) ==
    IF RedexesAnyName(ms) = {} THEN ms
    ELSE LET k == CHOOSE r \in RedexesAnyName(ms) :
                        \A q \in RedexesAnyName(ms) : r <= q
         IN  ReduceAnyName(SubSeq(ms, 1, k - 1) \o SubSeq(ms, k + 2, Len(ms)))

\* The opening tags among the first k tokens that no closing tag has
\* closed, each closing tag closing the innermost open tag whatever its name
UnpoppedOpeners(k) ==
    RecsOf(SelectSeq(ReduceAnyName(Structural(k)), LAMBDA m : ~ClosingForm(m)))

\* C10 as stated: after every token of the scan, mismatches included, the
\* stack is exactly the opening tags seen so far that no corresponding
\* (same-named) closing tag has matched, innermost on top.
C10_AsStated == pc = "scan" => stack = UnmatchedOpeners(i)

\* C10 amended: after every token of the scan the stack is exactly the
\* opening tags seen so far that no closing tag has popped, each closing
\* tag that is not self-closing popping the innermost open tag whatever its
\* name, innermost on top; as long as no mismatch has been reported
\* (unexpected closing tags included) these are the opening tags not yet
\* matched by a same-named closing tag.
C10_StackIsUnpoppedOpeners ==
    /\ pc = "scan" => stack = UnpoppedOpeners(i)
    /\ (pc = "scan" /\ OfKind(out, "Mismatched tag") = <<>>)
            => stack = UnmatchedOpeners(i)

\* Two tags are open after an unexpected closing tag was reported.
C10_Witness ==
    /\ pc = "scan"
    /\ Len(stack) = 2
    /\ stack[1] # stack[2]
    /\ OfKind(out, "Unexpected closing tag") # <<>>
    /\ OfKind(out, "Mismatched tag") = <<>>

----------------------------------------------------------------------------
\* The tokens that are not self-closing are: close X, open Y
CloseThenOpen ==
    LET t == Structural(Len(matches))
    IN  Len(t) = 2 /\ ClosingTok(t[1]) /\ OpeningTok(t[2])

\* C11: a step that scans a closing token (not self-closing) on an empty
\* stack writes exactly one Unexpected diagnostic naming the tag and its
\* line, leaves the stack empty and stays in the scan, one token further;
\* an opening token scanned at any later point, the output holding
\* Unexpected diagnostics or not, is pushed on top of the stack with its
\* name and line and writes nothing.  A finished run on close X, open Y
\* has written exactly: Unexpected X, then Unclosed Y.
C11_UnexpectedThenContinue ==
    /\ [][(InLoop /\ ClosingTok(Cur) /\ stack = <<>>) =>
            /\ out' = Append(out, UnexpectedFor(Cur))
            /\ stack' = <<>>
            /\ pc' = "scan"
            /\ i' = i + 1]_vars
    /\ [][(InLoop /\ OpeningTok(Cur)) =>
            /\ stack' = Append(stack, RecOf(Cur))
            /\ out' = out
            /\ pc' = "scan"
            /\ i' = i + 1]_vars
    /\ [](pc = "done" /\ CloseThenOpen =>
            LET t == Structural(Len(matches))
            IN  out = << UnexpectedFor(t[1]),
                         <<"Unclosed tag", t[2].g2, RefLine(t[2])>> >>)

\* An opening tag has just been pushed on the empty stack that an
\* unexpected closing tag, reported on an earlier line, had left.
C11_Witness ==
    /\ pc = "scan"
    /\ i = 2
    /\ CloseThenOpen
    /\ ClosingTok(matches[1]) /\ OpeningTok(matches[2])
    /\ RefLine(matches[1]) < RefLine(matches[2])
    /\ out = <<UnexpectedFor(matches[1])>>
    /\ stack = <<RecOf(matches[2])>>

----------------------------------------------------------------------------
\* C12: a finished run that has written no diagnostic has read a file whose
\* tokens, self-closing and void ones removed, are perfectly balanced: they
\* cancel completely as opening tags directly followed by their same-named
\* closing tags, so that no opening and no closing token is left over.
C12_SilentMeansWellFormed ==
    (pc = "done" /\ out = <<>>) => WellFormed

\* A finished, silent run on an opening tag and its closing tag on a later
\* line.
C12_Witness ==
    /\ pc = "done"
    /\ out = <<>>
    /\ Len(Structural(Len(matches))) = 2
    /\ RefLine(matches[1]) < RefLine(matches[Len(matches)])

----------------------------------------------------------------------------
\* Numbers of opening and of closing tokens among the first k tokens
NumOpening(k) == Len(SelectSeq(SubSeq(matches, 1, k), OpeningTok))

NumClosing(k) == Len(SelectSeq(SubSeq(matches, 1, k), ClosingTok))

NumOfKind(kind) == Len(OfKind(out, kind))

\* Closing tokens among the first i that removed a record: the ones that
\* directly follow an opening token once the pairs between them are
\* cancelled, whatever the names
NumPopped ==
    NumClosing(i)
        - Len(SelectSeq(ReduceAnyName(Structural(i)), ClosingForm))

\* C13: a step of the scan writes at most one diagnostic, and none for an
\* opening or a self-closing token.  At every point the opening tokens
\* scanned so far are as many as the records on the stack, the closing
\* tokens that popped a record and the Unclosed diagnostics together, and
\* the closing tokens scanned so far are as many as those that popped and
\* the Unexpected diagnostics together; mismatches are at most as many as
\* the pops; the stack depth is between 0 and the number of opening tokens
\* scanned.  At the end the stack is
\* empty, so the opening tokens are the pops plus the Unclosed diagnostics
\* and the closing tokens are the pops plus the Unexpected diagnostics.
C13_Accounting ==
    /\ [][InLoop =>
            /\ (out' = out \/ (Len(out') = Len(out) + 1
                               /\ SubSeq(out', 1, Len(out)) = out))
            /\ (~ClosingTok(Cur) => out' = out)]_vars
    /\ [](/\ NumClosing(i) = NumPopped + NumOfKind("Unexpected closing tag")
          /\ NumOfKind("Mismatched tag") <= NumPopped
          /\ NumOpening(i) = Len(stack) + NumPopped + NumOfKind("Unclosed tag")
          /\ Len(stack) >= 0
          /\ Len(stack) <= NumOpening(i))
    /\ [](pc = "done" =>
            /\ i = Len(matches)
            /\ NumOpening(i) = NumPopped + NumOfKind("Unclosed tag")
            /\ NumClosing(i) = NumPopped + NumOfKind("Unexpected closing tag")
            /\ Len(out) = NumOfKind("Unexpected closing tag")
                          + NumOfKind("Mismatched tag")
                          + NumOfKind("Unclosed tag"))

\* A finished run in which two opening tokens were pushed, one was popped
\* by a closing token of another name and the other was reported unclosed.
C13_Witness ==
    /\ pc = "done"
    /\ NumOpening(i) = 2
    /\ NumClosing(i) = 1
    /\ NumPopped = 1
    /\ NumOfKind("Mismatched tag") = 1
    /\ NumOfKind("Unclosed tag") = 1

----------------------------------------------------------------------------
\* A token written </name ...> that is classified self-closing
SkippedCloser(m) == ClosingForm(m) /\ SelfClosingTok(m)

\* C14: a step that scans a closing-form token classified self-closing
\* (void name, or trailing / marker) writes nothing, leaves the stack as it
\* is, empty or not and whatever the name on top, and stays in the scan,
\* one token further; no Unexpected or Mismatched diagnostic ever names a
\* void tag as its closing tag; a finished run on a file all of whose
\* closing-form tokens are self-closing has reported exactly its opening
\* tags, all unclosed, innermost first.
C14_SelfClosingCloserSkipped ==
    /\ [][(InLoop /\ SkippedCloser(Cur)) =>
            /\ out' = out
            /\ stack' = stack
            /\ pc' = "scan"
            /\ i' = i + 1]_vars
    /\ [](\A k \in 1..Len(out) :
            Kind(out[k]) # "Unclosed tag" => CloserRec(out[k])[1] \notin VoidTags)
    /\ [](pc = "done" /\ (\A k \in 1..Len(matches) :
                            ClosingForm(matches[k]) => SelfClosingTok(matches[k]))
            => out = [k \in 1..NumOpening(Len(matches)) |->
                        LET r == Reverse(RecsOf(SelectSeq(matches, OpeningTok)))[k]
                        IN  <<"Unclosed tag", r[1], r[2]>>])

\* A closing tag of void name was scanned on the empty stack, and a closing
\* tag with a trailing / has just been scanned while a tag of another name
\* was on top: nothing was written and the record is still there.
C14_Witness ==
    /\ pc = "scan"
    /\ i = 3
    /\ SkippedCloser(matches[1]) /\ matches[1].g2 \in VoidTags
    /\ OpeningTok(matches[2])
    /\ SkippedCloser(matches[3]) /\ HasMarker(matches[3])
    /\ matches[3].g2 # matches[2].g2
    /\ stack = <<RecOf(matches[2])>>
    /\ out = <<>>

----------------------------------------------------------------------------
\* The kind of a token
TokKind(m) ==
    IF SelfClosingTok(m) THEN "self"
    ELSE IF ClosingForm(m) THEN "close" ELSE "open"

\* The kinds of the first k tokens, names forgotten
KindsOf(k) == [j \in 1..k |-> TokKind(matches[j])]

\* The number of tags open after a sequence of kinds: an opening tag adds
\* one, a closing tag removes one if there is one
RECURSIVE DepthAfter(_)
DepthAfter(ks) ==
    IF ks = <<>> THEN 0
    ELSE LET d == DepthAfter(SubSeq(ks, 1, Len(ks) - 1))
             k == ks[Len(ks)]
         IN  IF k = "open" THEN d + 1
             ELSE IF k = "close" /\ d > 0 THEN d - 1
             ELSE d

\* The positions of the closing tags that find no tag open
UnexpectedAt(ks) ==
    { j \in 1..Len(ks) :
        ks[j] = "close" /\ DepthAfter(SubSeq(ks, 1, j - 1)) = 0 }

\* C15: the stack depth after every token, the tokens at which an
\* Unexpected diagnostic is written and the number of Unclosed diagnostics
\* are the values of functions of the sequence of token kinds alone
\* (DepthAfter, UnexpectedAt), in which no tag name occurs: two files that
\* agree token by token on kind therefore agree on all three, whatever the
\* names.  The names decide one thing: a closing token that pops writes a
\* Mismatched diagnostic exactly when its name differs from the popped one.
C15_ShapeIgnoresNames ==
    /\ [](pc \in {"scan", "final", "done"} =>
            /\ pc = "scan" => Len(stack) = DepthAfter(KindsOf(i))
            /\ NumOfKind("Unexpected closing tag")
                    = Cardinality(UnexpectedAt(KindsOf(i)))
            /\ Len(stack) + NumOfKind("Unclosed tag") = DepthAfter(KindsOf(i)))
    /\ [](pc = "done" =>
            NumOfKind("Unclosed tag") = DepthAfter(KindsOf(Len(matches))))
    /\ [][InLoop =>
            /\ (i + 1 \in UnexpectedAt(KindsOf(i + 1)))
                    <=> (/\ Len(out') = Len(out) + 1
                         /\ Kind(out'[Len(out')]) = "Unexpected closing tag")
            /\ (TokKind(Cur) = "close" /\ DepthAfter(KindsOf(i)) > 0) =>
                    IF stack[Len(stack)][1] = Cur.g2
                    THEN out' = out
                    ELSE /\ Len(out') = Len(out) + 1
                         /\ Kind(out'[Len(out')]) = "Mismatched tag"]_vars

\* The scan has processed close, open, close: the first closing tag was
\* reported as unexpected and the second one, of another name than the tag
\* it popped, as a mismatch.
C15_Witness ==
    /\ pc = "scan"
    /\ i = 3
    /\ KindsOf(3) = <<"close", "open", "close">>
    /\ matches[2].g2 # matches[3].g2
    /\ Len(out) = 2
    /\ Kind(out[2]) = "Mismatched tag"
    /\ stack = <<>>

----------------------------------------------------------------------------
\* Two names that differ, and only in the case of their letters
CaseVariant(n1, n2) == n1 # n2 /\ LowerName(n1) = LowerName(n2)

\* A tag of opening form, without the marker, whose name is a void name
\* up to case but not a void name
NearVoidOpener(m) ==
    /\ ~ClosingForm(m)
    /\ ~HasMarker(m)
    /\ m.g2 \notin VoidTags
    /\ \E v \in VoidTags : CaseVariant(m.g2, v)

\* The statement of C16 about closing tags, as written: whenever the name
\* of a closing tag differs from the name on top of the stack only in case,
\* a Mismatched diagnostic is written
C16_AsStated ==
    [][(InLoop /\ ClosingForm(Cur) /\ stack # <<>>
               /\ CaseVariant(Cur.g2, stack[Len(stack)][1])) =>
            out' = Append(out, <<"Mismatched tag",
                                 stack[Len(stack)][1], stack[Len(stack)][2],
                                 Cur.g2, RefLine(Cur)>>)]_vars

\* C16: names are compared exactly.  A tag whose name differs from a void
\* name only in case is an ordinary opening tag: it is pushed, and when it
\* is the only tag of the file it is reported as unclosed.  A closing tag
\* whose name differs from the name on top of the stack only in case pops
\* it and is reported as a mismatch, provided the closing tag is not
\* itself self-closing; one that is (its own name is exactly a void name,
\* or it carries the marker) is skipped and the top of the stack stays.
C16_ExactNames ==
    /\ [][(InLoop /\ NearVoidOpener(Cur)) =>
            /\ stack' = Append(stack, RecOf(Cur))
            /\ out' = out]_vars
    /\ [][(InLoop /\ ClosingTok(Cur) /\ stack # <<>>
                  /\ CaseVariant(Cur.g2, stack[Len(stack)][1])) =>
            /\ stack' = SubSeq(stack, 1, Len(stack) - 1)
            /\ out' = Append(out, <<"Mismatched tag",
                                    stack[Len(stack)][1], stack[Len(stack)][2],
                                    Cur.g2, RefLine(Cur)>>)]_vars
    /\ [][(InLoop /\ SkippedCloser(Cur) /\ stack # <<>>
                  /\ CaseVariant(Cur.g2, stack[Len(stack)][1])) =>
            /\ stack' = stack
            /\ out' = out]_vars
    /\ [](( /\ pc = "done"
            /\ Len(matches) = 1
            /\ NearVoidOpener(matches[1]) ) =>
          out = << <<"Unclosed tag", matches[1].g2, RefLine(matches[1])>> >>)

\* Two tags named like a void tag up to case and a closing tag of the same
\* name in yet another case: the closing tag popped the second and was
\* reported as a mismatch, the first was reported as unclosed.
C16_Witness ==
    /\ pc = "done"
    /\ Len(matches) = 3
    /\ NearVoidOpener(matches[1])
    /\ NearVoidOpener(matches[2])
    /\ ClosingTok(matches[3])
    /\ CaseVariant(matches[3].g2, matches[2].g2)
    /\ out = << <<"Mismatched tag", matches[2].g2, RefLine(matches[2]),
                  matches[3].g2, RefLine(matches[3])>>,
                <<"Unclosed tag", matches[1].g2, RefLine(matches[1])>> >>

====
